---------------------------- MODULE Spec2Model ----------------------------
(***************************************************************************)
(* A model of the resume parser: the two scripts of the repository,        *)
(* main.py (pdf only, header-delimited sections) and resume_parser.py      *)
(* (pdf with OCR fallback, docx, skills, summary, ranking, csv export).    *)
(*                                                                         *)
(* Texts are strings; a character is a string of length one.  The regular  *)
(* expressions of the code are matched by a small backtracking matcher     *)
(* that tries the alternatives in the order Python's re module does.       *)
(***************************************************************************)
EXTENDS Integers, Sequences, FiniteSets, TLC

-----------------------------------------------------------------------------
(* Bounds of the model. *)

\* Words of the pdf handed to main.py, summed over its pages.
MaxWords == 3
\* Pages of a pdf.
MaxPages == 2
\* Paragraphs of a docx.
MaxParagraphs == 1
\* Resumes in one call of rank_applicants.
MaxResumes == 3
\* Similarities are k / ScoreScale for k in -ScoreScale .. ScoreScale.
ScoreScale == 1

-----------------------------------------------------------------------------
(* Characters and strings. *)

Ch(s, i) == SubSeq(s, i, i)

LowerCase == "abcdefghijklmnopqrstuvwxyz"
UpperCase == "ABCDEFGHIJKLMNOPQRSTUVWXYZ"
DigitChars == "0123456789"

CharsOf(s) == { Ch(s, i) : i \in 1..Len(s) }

LowerSet == CharsOf(LowerCase)
UpperSet == CharsOf(UpperCase)
Digits == CharsOf(DigitChars)
Letters == LowerSet \cup UpperSet
\* \s of Python's re, as far as the texts of the model go
Spaces == {" ", "\t", "\n"}
\* \w of Python's re on ASCII text
WordChars == Letters \cup Digits \cup {"_"}

UpperMap == [c \in LowerSet |-> Ch(UpperCase, CHOOSE i \in 1..Len(LowerCase) : Ch(LowerCase, i) = c)]
LowerMap == [c \in UpperSet |-> Ch(LowerCase, CHOOSE i \in 1..Len(UpperCase) : Ch(UpperCase, i) = c)]

\* str.upper and str.lower on one character
upper(c) == IF c \in LowerSet THEN UpperMap[c] ELSE c
lower(c) == IF c \in UpperSet THEN LowerMap[c] ELSE c

Min(S) == CHOOSE x \in S : \A y \in S : x <= y
Max(S) == CHOOSE x \in S : \A y \in S : x >= y

\* the strings xs[lo], ..., xs[hi] put together
RECURSIVE Concat(_, _, _)
Concat(xs, lo, hi) ==
    IF lo > hi THEN ""
    ELSE IF lo = hi THEN xs[lo]
    ELSE Concat(xs, lo, (lo + hi) \div 2) \o Concat(xs, (lo + hi) \div 2 + 1, hi)

\* str.lower
str_lower(s) == Concat([i \in 1..Len(s) |-> lower(Ch(s, i))], 1, Len(s))

\* str.strip
strip(s) ==
    LET inked == { i \in 1..Len(s) : Ch(s, i) \notin Spaces }
    IN  IF inked = {} THEN "" ELSE SubSeq(s, Min(inked), Max(inked))

\* sep.join(xs)
join(sep, xs) == Concat([k \in 1..Len(xs) |-> IF k = 1 THEN xs[k] ELSE sep \o xs[k]], 1, Len(xs))

\* str.split(): the runs of characters that are not whitespace
split(s) ==
    LET starts == { i \in 1..Len(s) : Ch(s, i) \notin Spaces /\ (i = 1 \/ Ch(s, i - 1) \in Spaces) }
        ends == { i \in 1..Len(s) : Ch(s, i) \notin Spaces /\ (i = Len(s) \/ Ch(s, i + 1) \in Spaces) }
        Nth(S, k) == CHOOSE v \in S : Cardinality({ w \in S : w < v }) = k - 1
    IN  [k \in 1..Cardinality(starts) |-> SubSeq(s, Nth(starts, k), Nth(ends, k))]

\* s.endswith(suffix)
endswith(s, suffix) ==
    /\ Len(suffix) <= Len(s)
    /\ SubSeq(s, Len(s) - Len(suffix) + 1, Len(s)) = suffix

-----------------------------------------------------------------------------
(* Regular expressions: a pattern is a sequence of elements.               *)
(*   Rep   a character class (or its complement) repeated min..max times,  *)
(*         max = -1 for no limit, greedy or lazy                           *)
(*   Lit   a literal, LitI a literal under re.IGNORECASE                   *)
(*   WordB the zero-width \b                                               *)
(*   Alt   (?:p1|p2|...), the alternatives tried in order                  *)

Rep(cls, neg, min, max, greedy) ==
    [kind |-> "cls", cls |-> cls, neg |-> neg, min |-> min, max |-> max, greedy |-> greedy]
One(cls) == Rep(cls, FALSE, 1, 1, TRUE)
Opt(cls) == Rep(cls, FALSE, 0, 1, TRUE)
Plus(cls) == Rep(cls, FALSE, 1, -1, TRUE)
Times(cls, n) == Rep(cls, FALSE, n, n, TRUE)
AtLeast(cls, n) == Rep(cls, FALSE, n, -1, TRUE)
\* .*? without DOTALL: any character but a newline, as few as possible
LazyAny == Rep({"\n"}, TRUE, 0, -1, FALSE)
WordB == [kind |-> "b"]
Alt(alts) == [kind |-> "alt", alts |-> alts]
Lit(s) == <<[kind |-> "lit", lit |-> s, icase |-> FALSE]>>
LitI(s) == <<[kind |-> "lit", lit |-> s, icase |-> TRUE]>>

InClass(c, e) == (c \in e.cls) # e.neg

\* the literal lit at position i of the text
MatchLit(text, lit, i) ==
    /\ i + Len(lit) - 1 <= Len(text)
    /\ SubSeq(text, i, i + Len(lit) - 1) = lit

\* the literal lit under re.IGNORECASE at position i of the text
MatchLitI(text, lit, i) ==
    /\ i + Len(lit) - 1 <= Len(text)
    /\ \A k \in 1..Len(lit) : upper(Ch(text, i + k - 1)) = upper(Ch(lit, k))

IsWordAt(text, i) == i >= 1 /\ i <= Len(text) /\ Ch(text, i) \in WordChars
\* \b at the gap before position i
WordBoundary(text, i) == IsWordAt(text, i - 1) # IsWordAt(text, i)

\* how many characters from position i on are in the class of e, up to e.max
Run(text, i, e) ==
    LET left == Len(text) - i + 1
        limit == IF e.max >= 0 /\ e.max < left THEN e.max ELSE left
        stops == { n \in 0..(limit - 1) : ~InClass(Ch(text, i + n), e) }
    IN  IF stops = {} THEN limit ELSE Min(stops)

\* MatchSeq: the position after the match of pat that starts at i, 0 if none:
\* the match a backtracking matcher finds first.  Of the counts of a repeated
\* class after which the rest of the pattern matches, a greedy one takes the
\* largest and a lazy one the smallest.
RECURSIVE MatchSeq(_, _, _), TryAlt(_, _, _, _, _)
MatchSeq(text, pat, i) ==
    IF Len(pat) = 0 THEN i
    ELSE LET e == Head(pat)
             rest == Tail(pat)
         IN  CASE e.kind = "b" ->
                    IF WordBoundary(text, i) THEN MatchSeq(text, rest, i) ELSE 0
               [] e.kind = "lit" ->
                    IF (IF e.icase THEN MatchLitI(text, e.lit, i) ELSE MatchLit(text, e.lit, i))
                    THEN MatchSeq(text, rest, i + Len(e.lit)) ELSE 0
               [] e.kind = "alt" -> TryAlt(text, e.alts, rest, i, 1)
               [] OTHER ->
                    LET avail == Run(text, i, e)
                        counts == { n \in e.min..avail : MatchSeq(text, rest, i + n) # 0 }
                    IN  IF counts = {} THEN 0
                        ELSE MatchSeq(text, rest,
                                      i + (IF e.greedy THEN Max(counts) ELSE Min(counts)))

TryAlt(text, alts, rest, i, k) ==
    IF k > Len(alts) THEN 0
    ELSE LET r == MatchSeq(text, alts[k] \o rest, i)
         IN  IF r # 0 THEN r ELSE TryAlt(text, alts, rest, i, k + 1)

NoMatch == [start |-> 0, end |-> 0]

\* re.search from position from on: the leftmost match
SearchFrom(text, pat, from) ==
    LET starts == { i \in from..(Len(text) + 1) : MatchSeq(text, pat, i) # 0 }
    IN  IF starts = {} THEN NoMatch
        ELSE [start |-> Min(starts), end |-> MatchSeq(text, pat, Min(starts))]

re_search(text, pat) == SearchFrom(text, pat, 1)

\* match.group(0)
group0(text, m) == SubSeq(text, m.start, m.end - 1)

\* re.findall / re.finditer of a pattern without groups: the matches, left to
\* right, none overlapping another
RECURSIVE FindAllFrom(_, _, _)
FindAllFrom(text, pat, from) ==
    LET m == SearchFrom(text, pat, from)
    IN  IF m.start = 0 THEN <<>>
        ELSE <<group0(text, m)>> \o
             FindAllFrom(text, pat, IF m.end = m.start THEN m.end + 1 ELSE m.end)

re_findall(text, pat) == FindAllFrom(text, pat, 1)

-----------------------------------------------------------------------------
VARIABLES
    \* main.py
    m_pc,           \* where main() of main.py stands
    pdf_path,       \* the file at the path the user entered
    m_text,         \* text, in parse_resume of main.py
    data,           \* the dictionary extract_information builds
    largest_text,   \* the result of extract_largest_text
    m_log,          \* what was logged with logging.error
    m_shown,        \* whether display_resume printed the record
    \* resume_parser.py
    pc,                 \* where main() of resume_parser.py stands
    resume_path,        \* the file at the path the user entered
    resume_text,        \* text, in main of resume_parser.py
    parsed_data,        \* the defaultdict(list) parse_resume builds
    job_description,    \* what the user entered as job description
    ranked_applicants,  \* what rank_applicants returned to main
    log,                \* what was logged, errors and infos
    displayed,          \* the (resume, score) pairs display_resume_info printed
    csv,                \* the rows export_to_csv wrote, and whether it was called
    \* rank_applicants of resume_parser.py, called on a list of resumes
    r_pc,               \* "call", then "returned" or "raised"
    resumes,            \* the list it is called with
    r_enc,              \* how the embedding model behaves in the call
    r_indices,          \* ranked_indices
    ranked_resumes      \* what the call returned

mvars == <<m_pc, pdf_path, m_text, data, largest_text, m_log, m_shown>>
pvars == <<pc, resume_path, resume_text, parsed_data, job_description, ranked_applicants,
           log, displayed, csv>>
rvars == <<r_pc, resumes, r_enc, r_indices, ranked_resumes>>
vars == <<mvars, pvars, rvars>>

SeqsUpTo(S, n) == UNION { [1..k -> S] : k \in 0..n }

-----------------------------------------------------------------------------
(* The variables of a script that is not the one running. *)

NoData == <<>>
NoCsv == [called |-> FALSE, written |-> FALSE, rows |-> <<>>]

MainPy_Idle ==
    /\ m_pc = "idle"
    /\ pdf_path = [exists |-> FALSE]
    /\ m_text = ""
    /\ data = NoData
    /\ largest_text = ""
    /\ m_log = {}
    /\ m_shown = FALSE

Parser_Idle ==
    /\ pc = "idle"
    /\ resume_path = [exists |-> FALSE]
    /\ resume_text = ""
    /\ parsed_data = NoData
    /\ job_description = ""
    /\ ranked_applicants = <<>>
    /\ log = {}
    /\ displayed = <<>>
    /\ csv = NoCsv

Rank_Idle ==
    /\ r_pc = "idle"
    /\ resumes = <<>>
    /\ r_enc = [job_ok |-> FALSE]
    /\ r_indices = <<>>
    /\ ranked_resumes = <<>>

-----------------------------------------------------------------------------
(* main.py *)

\* a word-layout record of pdfplumber's extract_words
Word(t, h) == [text |-> t, height |-> h]

WordPool ==
    { Word("EDUCATION", 12), Word("EXPERIENCE", 12), Word("WORK", 12),
      Word("TECHNICAL", 12), Word("SKILLS", 12), Word("AWARDS", 12),
      Word("Certifications", 12), Word("PROJECTS", 12), Word("BS", 10),
      Word("JOHN", 18), Word("a@b.co", 10), Word("555.123.4567", 10) }

\* the pages of a pdf: the words ws cut into np pages after the positions cuts
PagesOf(ws, np, cuts) ==
    [p \in 1..np |->
        SubSeq(ws, (IF p = 1 THEN 0 ELSE cuts[p - 1]) + 1,
                   IF p = np THEN Len(ws) ELSE cuts[p])]

\* where the pages of ws may end: nondecreasing positions within ws
CutsOf(ws) ==
    { c \in SeqsUpTo(0..Len(ws), MaxPages - 1) :
        \A k \in 1..Len(c) : k = 1 \/ c[k - 1] <= c[k] }

\* the page lists of the pdfs of the model: one page at least
PageLists(n) ==
    UNION { { PagesOf(ws, Len(cuts) + 1, cuts) : cuts \in CutsOf(ws) } :
            ws \in SeqsUpTo(WordPool, n) }

Extensions == {".pdf", ".docx", ".txt"}

\* The files a user can name.  exists: os.path.exists; openable: whether
\* pdfplumber.open reads it as a pdf; pages: its pages, each the words on it;
\* none_on_empty: whether page.extract_text() of a page without words is None
\* (older pdfplumber) or "" (newer).
NoFile == [path |-> "resume.pdf", exists |-> FALSE, openable |-> FALSE,
           pages |-> <<>>, none_on_empty |-> FALSE]

\* n: the number of words of the longest document
PdfFiles(n) ==
    {NoFile} \cup
    { [path |-> "resume" \o ext, exists |-> TRUE, openable |-> FALSE,
       pages |-> <<>>, none_on_empty |-> FALSE] : ext \in Extensions } \cup
    { [path |-> "resume.pdf", exists |-> TRUE, openable |-> TRUE,
       pages |-> pages, none_on_empty |-> FALSE] : pages \in PageLists(n) } \cup
    { [path |-> "resume.pdf", exists |-> TRUE, openable |-> TRUE,
       pages |-> pages, none_on_empty |-> TRUE] :
        pages \in { ps \in PageLists(n) : \E p \in 1..Len(ps) : ps[p] = <<>> } } \cup
    \* a pdf under another extension, of one word at most
    { [path |-> "resume" \o ext, exists |-> TRUE, openable |-> TRUE,
       pages |-> pages, none_on_empty |-> FALSE] :
        ext \in Extensions \ {".pdf"}, pages \in PageLists(1) }

\* page.extract_text(): the words of the page in order
page_extract_text(file, page) == join(" ", [k \in 1..Len(page) |-> page[k].text])

\* the loop of extract_text from page p on; text + None raises TypeError, which
\* the handler of extract_text logs before the text read so far is returned
RECURSIVE ExtractPages(_, _, _)
ExtractPages(file, p, text) ==
    IF p > Len(file.pages) THEN [text |-> text, failed |-> FALSE]
    ELSE IF file.pages[p] = <<>> /\ file.none_on_empty THEN [text |-> text, failed |-> TRUE]
    ELSE ExtractPages(file, p + 1, text \o page_extract_text(file, file.pages[p]) \o "\n")

extract_text(file) ==
    IF ~file.openable THEN [text |-> "", failed |-> TRUE]
    ELSE ExtractPages(file, 1, "")

\* the words of a page whose height is the largest on the page, in order
RECURSIVE LargestOn(_, _)
LargestOn(page, k) ==
    IF k > Len(page) THEN <<>>
    ELSE (IF page[k].height = Max({ page[j].height : j \in 1..Len(page) })
          THEN <<page[k].text>> ELSE <<>>) \o LargestOn(page, k + 1)

RECURSIVE LargestPages(_, _)
LargestPages(file, p) ==
    IF p > Len(file.pages) THEN ""
    ELSE (IF file.pages[p] = <<>> THEN ""
          ELSE join(" ", LargestOn(file.pages[p], 1)) \o " ") \o LargestPages(file, p + 1)

extract_largest_text(file) ==
    IF ~file.openable THEN [text |-> "", failed |-> TRUE]
    ELSE [text |-> strip(LargestPages(file, 1)), failed |-> FALSE]

\* re.sub(r'\s+', ' ', text): of a run of whitespace the first character
\* becomes a space and the others go
process_text(text) ==
    Concat([i \in 1..Len(text) |->
                IF Ch(text, i) \notin Spaces THEN Ch(text, i)
                ELSE IF i > 1 /\ Ch(text, i - 1) \in Spaces THEN ""
                ELSE " "],
           1, Len(text))

Separator == {"-", "."} \cup Spaces

\* r'\(?\d{3}\)?[-.\s]?\d{3}[-.\s]?\d{4}'
MainPy_phone_pattern ==
    <<Opt({"("}), Times(Digits, 3), Opt({")"}), Opt(Separator), Times(Digits, 3),
      Opt(Separator), Times(Digits, 4)>>

\* r'[\w\.-]+@[\w\.-]+'
MainPy_email_pattern ==
    <<Plus(WordChars \cup {".", "-"}), One({"@"}), Plus(WordChars \cup {".", "-"})>>

\* The section regular expressions of extract_information, in its order:
\* heads are the alternatives before the group, terms those of the lookahead
\* (the lookahead's last alternative, $, is not listed).
SectionPatterns ==
    << [key |-> "Education", heads |-> <<"EDUCATION">>,
        terms |-> <<"EXPERIENCE", "WORK EXPERIENCE", "TECHNICAL SKILLS", "CERTIFICATIONS",
                    "PROJECTS", "LANGUAGES", "AWARDS">>],
       [key |-> "Experience", heads |-> <<"EXPERIENCE", "WORK EXPERIENCE">>,
        terms |-> <<"TECHNICAL SKILLS", "CERTIFICATIONS", "PROJECTS", "LANGUAGES", "AWARDS">>],
       [key |-> "Skills", heads |-> <<"TECHNICAL SKILLS">>,
        terms |-> <<"EXPERIENCE", "WORK EXPERIENCE", "EDUCATION", "CERTIFICATIONS",
                    "PROJECTS", "LANGUAGES", "AWARDS">>],
       [key |-> "Certifications", heads |-> <<"CERTIFICATION", "CERTIFICATIONS">>,
        terms |-> <<"EXPERIENCE", "WORK EXPERIENCE", "EDUCATION", "TECHNICAL SKILLS",
                    "PROJECTS", "LANGUAGES", "AWARDS">>],
       [key |-> "Awards", heads |-> <<"AWARD", "AWARDS">>,
        terms |-> <<"EXPERIENCE", "WORK EXPERIENCE", "EDUCATION", "TECHNICAL SKILLS",
                    "CERTIFICATIONS", "PROJECTS", "LANGUAGES">>],
       [key |-> "Projects", heads |-> <<"PROJECTS">>,
        terms |-> <<"EXPERIENCE", "WORK EXPERIENCE", "EDUCATION", "TECHNICAL SKILLS",
                    "CERTIFICATIONS", "LANGUAGES", "AWARDS">>],
       [key |-> "Languages", heads |-> <<"LANGUAGES">>,
        terms |-> <<"EXPERIENCE", "WORK EXPERIENCE", "EDUCATION", "TECHNICAL SKILLS",
                    "CERTIFICATIONS", "PROJECTS", "AWARDS">>] >>

SectionKeys == { SectionPatterns[k].key : k \in 1..Len(SectionPatterns) }

\* (?:l1|l2|...) at position i: the first alternative that matches, 0 if none
AltAt(text, lits, i) ==
    LET hits == { k \in 1..Len(lits) : MatchLitI(text, lits[k], i) }
    IN  IF hits = {} THEN 0 ELSE Min(hits)

\* $ without re.MULTILINE: the end of the text, or before a newline that ends it
AtDollar(text, j) == j = Len(text) + 1 \/ (j = Len(text) /\ Ch(text, j) = "\n")

\* where (?:h1|h2|...) first matches, 0 if nowhere
HeadFrom(text, heads) ==
    LET at == { i \in 1..Len(text) : AltAt(text, heads, i) # 0 }
    IN  IF at = {} THEN 0 ELSE Min(at)

\* (.*?)(?=(t1|...|$)) with re.DOTALL from position j on: where the group ends
LazyUntil(text, terms, j) ==
    Min({ k \in j..(Len(text) + 1) : AtDollar(text, k) \/ AltAt(text, terms, k) # 0 })

\* re.search of one section's expression: the match object, start the start of
\* the match, from .. to group 1 (to is the position after the group).  What
\* follows the heads matches at every position, so the match starts at the
\* first position where a head matches, with the first head that does.
section_search(text, p) ==
    LET at == HeadFrom(text, p.heads)
        from == at + Len(p.heads[AltAt(text, p.heads, at)])
    IN  IF at = 0 THEN [found |-> FALSE, start |-> 0, from |-> 0, to |-> 0]
        ELSE [found |-> TRUE, start |-> at, from |-> from,
              to |-> LazyUntil(text, p.terms, from)]

PatternOf(key) == SectionPatterns[CHOOSE k \in 1..Len(SectionPatterns) : SectionPatterns[k].key = key]

\* match.group(1).strip() if match else 'N/A'
section_text(text, m) == IF m.found THEN strip(SubSeq(text, m.from, m.to - 1)) ELSE "N/A"

\* doc.ents of spaCy: the recognizer is a black box; it may tag a word holding
\* an @ as EMAIL, or tag nothing
MainPy_ents(text) ==
    LET ws == split(text)
    IN  {<<>>} \cup
        { <<[text |-> ws[k], label |-> "EMAIL"]>> :
            k \in { j \in 1..Len(ws) : "@" \in CharsOf(ws[j]) } }

\* the first entity labelled EMAIL, None (here "") if there is none
first_email(ents) ==
    LET hits == { k \in 1..Len(ents) : ents[k].label = "EMAIL" /\ ents[k].text # "" }
    IN  IF hits = {} THEN "" ELSE ents[Min(hits)].text

extract_information(text, ents) ==
    LET email == first_email(ents)
        phone_match == re_findall(text, MainPy_phone_pattern)
        email_match == re_search(text, MainPy_email_pattern)
    IN  [key \in SectionKeys |-> section_text(text, section_search(text, PatternOf(key)))] @@
        [ Email |-> IF email # "" THEN email
                    ELSE IF email_match.start # 0 THEN group0(text, email_match) ELSE "N/A",
          Phone |-> IF Len(phone_match) > 0 THEN phone_match[1] ELSE "N/A" ]

\* the fields display_resume reads
DisplayKeys == {"Name", "Email", "Phone"} \cup SectionKeys

MainPy_Init ==
    /\ m_pc = "main"
    /\ pdf_path \in PdfFiles(MaxWords)
    /\ m_text = ""
    /\ data = NoData
    /\ largest_text = ""
    /\ m_log = {}
    /\ m_shown = FALSE
    /\ Parser_Idle
    /\ Rank_Idle

\* main(): os.path.exists
MainPy_main ==
    /\ m_pc = "main"
    /\ IF ~pdf_path.exists
       THEN m_pc' = "end" /\ m_log' = m_log \cup {"File not found"}
       ELSE m_pc' = "extract_text" /\ m_log' = m_log
    /\ UNCHANGED <<pdf_path, m_text, data, largest_text, m_shown>>
    /\ UNCHANGED <<pvars, rvars>>

\* parse_resume: text = extract_text(pdf_path)
MainPy_extract_text ==
    /\ m_pc = "extract_text"
    /\ LET r == extract_text(pdf_path)
       IN  /\ m_text' = r.text
           /\ m_log' = IF r.failed THEN m_log \cup {"Failed to extract text from PDF"} ELSE m_log
    /\ m_pc' = "process_text"
    /\ UNCHANGED <<pdf_path, data, largest_text, m_shown>>
    /\ UNCHANGED <<pvars, rvars>>

\* parse_resume: text = process_text(text)
MainPy_process_text ==
    /\ m_pc = "process_text"
    /\ m_text' = process_text(m_text)
    /\ m_pc' = "extract_information"
    /\ UNCHANGED <<pdf_path, data, largest_text, m_log, m_shown>>
    /\ UNCHANGED <<pvars, rvars>>

\* parse_resume: data = extract_information(text)
MainPy_extract_information ==
    /\ m_pc = "extract_information"
    /\ \E ents \in MainPy_ents(m_text) : data' = extract_information(m_text, ents)
    /\ m_pc' = "extract_largest_text"
    /\ UNCHANGED <<pdf_path, m_text, largest_text, m_log, m_shown>>
    /\ UNCHANGED <<pvars, rvars>>

\* parse_resume: the name is set only if extract_largest_text found one
MainPy_extract_largest_text ==
    /\ m_pc = "extract_largest_text"
    /\ LET r == extract_largest_text(pdf_path)
       IN  /\ largest_text' = r.text
           /\ data' = IF r.text # "" THEN ("Name" :> r.text) @@ data ELSE data
           /\ m_log' = IF r.failed THEN m_log \cup {"Failed to extract largest text from PDF"}
                       ELSE m_log
    /\ m_pc' = "display_resume"
    /\ UNCHANGED <<pdf_path, m_text, m_shown>>
    /\ UNCHANGED <<pvars, rvars>>

\* main(): display_resume(parsed_data); data[key] of a missing key raises
\* KeyError, which main() logs
MainPy_display_resume ==
    /\ m_pc = "display_resume"
    /\ IF DisplayKeys \subseteq DOMAIN data
       THEN m_shown' = TRUE /\ m_log' = m_log
       ELSE m_shown' = FALSE /\ m_log' = m_log \cup {"An error occurred"}
    /\ m_pc' = "end"
    /\ UNCHANGED <<pdf_path, m_text, data, largest_text>>
    /\ UNCHANGED <<pvars, rvars>>

MainPy_Next ==
    \/ MainPy_main
    \/ MainPy_extract_text
    \/ MainPy_process_text
    \/ MainPy_extract_information
    \/ MainPy_extract_largest_text
    \/ MainPy_display_resume

SpecMainPy == MainPy_Init /\ [][MainPy_Next]_vars
-----------------------------------------------------------------------------
(* resume_parser.py *)

\* Python's None
None == "<None>"

\* what page.extract_text() may return for a page of a pdf; None is what older
\* versions of pdfplumber return for a page without text
PageTexts ==
    { None, "", " \n", "555-123-4567", "(555) 123-4567", "555.123.4567",
      "Experienced in Python and SQL and python",
      "John a@b.co Intern at Google BS Mathematics" }

\* what pytesseract.image_to_string may return for the image of a page
OcrTexts == { "", " \n", "Java 555 123 4567" }

\* the text of a paragraph of a docx
ParagraphTexts == { "", "Jane PyTorch NLP nlp (555)123-4567" }

\* The files a user can name.  exists: os.path.exists; openable: whether the
\* reader the extension selects (pdfplumber.open, Document) opens it; pages:
\* the text of each page of a pdf; paragraphs: the paragraphs of a docx.
ResumeFiles ==
    { [path |-> "resume.pdf", exists |-> FALSE, openable |-> FALSE,
       pages |-> <<>>, paragraphs |-> <<>>] } \cup
    { [path |-> "resume" \o ext, exists |-> TRUE, openable |-> FALSE,
       pages |-> <<>>, paragraphs |-> <<>>] : ext \in Extensions } \cup
    { [path |-> "resume.pdf", exists |-> TRUE, openable |-> TRUE,
       pages |-> pages, paragraphs |-> <<>>] :
        pages \in SeqsUpTo(PageTexts, MaxPages) \ {<<>>} } \cup
    { [path |-> "resume.docx", exists |-> TRUE, openable |-> TRUE,
       pages |-> <<>>, paragraphs |-> pars] :
        pars \in SeqsUpTo(ParagraphTexts, MaxParagraphs) }

Raised == [raised |-> TRUE, value |-> None]
Return(v) == [raised |-> FALSE, value |-> v]

\* extract_text_from_scanned_pdf: ocr is what the OCR answers: the text of each
\* image in page order, unless convert_from_path or pytesseract raises
extract_text_from_scanned_pdf(file, ocr) ==
    IF ocr.raised THEN Raised ELSE Return(join("", ocr.texts))

\* the loop of extract_text_from_pdf from page p on; text += None raises TypeError
RECURSIVE ConcatPages(_, _, _)
ConcatPages(pages, p, txt) ==
    IF p > Len(pages) THEN Return(txt)
    ELSE IF pages[p] = None THEN Raised
    ELSE ConcatPages(pages, p + 1, txt \o pages[p])

\* whether extract_text_from_pdf turns to the OCR: the pages were read and
\* their text is empty after strip()
needs_ocr(file) ==
    /\ file.openable
    /\ ~ConcatPages(file.pages, 1, "").raised
    /\ strip(ConcatPages(file.pages, 1, "").value) = ""

extract_text_from_pdf(file, ocr) ==
    IF ~file.openable THEN Raised
    ELSE LET r == ConcatPages(file.pages, 1, "")
         IN  IF r.raised THEN Raised
             ELSE IF strip(r.value) = "" THEN extract_text_from_scanned_pdf(file, ocr)
             ELSE r

RECURSIVE ConcatParagraphs(_, _)
ConcatParagraphs(pars, k) ==
    IF k > Len(pars) THEN "" ELSE pars[k] \o "\n" \o ConcatParagraphs(pars, k + 1)

extract_text_from_docx(file) ==
    IF ~file.openable THEN Raised ELSE Return(ConcatParagraphs(file.paragraphs, 1))

\* r"[a-zA-Z0-9._%+-]+@[a-zA-Z0-9.-]+\.[a-zA-Z]{2,}"
email_pattern ==
    <<Plus(Letters \cup Digits \cup {".", "_", "%", "+", "-"}), One({"@"}),
      Plus(Letters \cup Digits \cup {".", "-"}), One({"."}), AtLeast(Letters, 2)>>

\* r"\(?\b\d{3}[-.)\s]?\d{3}[-.\s]?\d{4}\b"
phone_pattern ==
    <<Opt({"("}), WordB, Times(Digits, 3), Opt({"-", ".", ")"} \cup Spaces), Times(Digits, 3),
      Opt({"-", "."} \cup Spaces), Times(Digits, 4), WordB>>

skills_list ==
    <<"Python", "Java", "Machine Learning", "SQL", "Data Analysis", "TensorFlow", "PyTorch", "NLP">>

\* [[{"LOWER": skill.lower()}] for skill in skills_list]: one token each, whose
\* lower-cased text is the lower-cased skill
patterns == [k \in 1..Len(skills_list) |-> <<[LOWER |-> str_lower(skills_list[k])]>>]

\* the tokens of the document: the tokenizer is spaCy's; the texts of the model
\* hold no punctuation it would cut off a word
tokens(txt) == split(txt)

\* matcher(doc): the (start, end) of the tokens a pattern matches, in the order
\* of the document (token positions from 1, end included)
RECURSIVE MatcherFrom(_, _)
MatcherFrom(toks, k) ==
    IF k > Len(toks) THEN <<>>
    ELSE (IF \E q \in 1..Len(patterns) : str_lower(toks[k]) = patterns[q][1].LOWER
          THEN <<[start |-> k, end |-> k]>> ELSE <<>>) \o MatcherFrom(toks, k + 1)

matcher(toks) == MatcherFrom(toks, 1)

InSeq(v, xs) == \E k \in 1..Len(xs) : xs[k] = v

\* the loop over the matches: a skill is appended unless the same string is in
\* the list; none is a list of no entries yet
RECURSIVE SkillsLoop(_, _, _, _)
SkillsLoop(toks, ms, k, skills) ==
    IF k > Len(ms) THEN skills
    ELSE LET skill == join(" ", SubSeq(toks, ms[k].start, ms[k].end))
         IN  SkillsLoop(toks, ms, k + 1,
                        IF InSeq(skill, skills) THEN skills ELSE Append(skills, skill))

OptDot == Opt({"."})
Fields == <<Alt(<<LitI("Computer Science"), LitI("Engineering"), LitI("Mathematics")>>)>>
Employers == <<Alt(<<LitI("Google"), LitI("Microsoft"), LitI("Amazon")>>)>>
At == <<Alt(<<LitI("at"), Lit("@")>>)>>
OptS == <<Alt(<<LitI("'s"), <<>> >>)>>

education_patterns ==
    << <<WordB,
         Alt(<< LitI("B") \o <<OptDot>> \o LitI("A") \o <<OptDot>>,
                LitI("B") \o <<OptDot>> \o LitI("S") \o <<OptDot>>,
                LitI("Bachelor") \o OptS >>),
         WordB, LazyAny, WordB>> \o Fields \o <<WordB>>,
       <<WordB,
         Alt(<< LitI("M") \o <<OptDot>> \o LitI("S") \o <<OptDot>>,
                LitI("M") \o <<OptDot>> \o LitI("A") \o <<OptDot>>,
                LitI("Master") \o OptS >>),
         WordB, LazyAny, WordB>> \o Fields \o <<WordB>>,
       <<WordB,
         Alt(<< LitI("Ph") \o <<OptDot>> \o LitI("D") \o <<OptDot>>,
                LitI("Doctorate") >>),
         WordB, LazyAny, WordB>> \o Fields \o <<WordB>> >>

experience_patterns ==
    << <<WordB,
         Alt(<< LitI("Software Engineer"), LitI("Data Scientist"),
                LitI("Machine Learning Engineer") >>),
         WordB, LazyAny, WordB>> \o At \o <<WordB, LazyAny, WordB>> \o Employers \o <<WordB>>,
       <<WordB, Alt(<< LitI("Intern"), LitI("Internship") >>),
         WordB, LazyAny, WordB>> \o At \o <<WordB, LazyAny, WordB>> \o Employers \o <<WordB>> >>

StripAll(xs) == [k \in 1..Len(xs) |-> strip(xs[k])]

\* for pattern in pats: for match in re.finditer(pattern, text): append
RECURSIVE FindEach(_, _, _)
FindEach(txt, pats, k) ==
    IF k > Len(pats) THEN <<>>
    ELSE StripAll(re_findall(txt, pats[k])) \o FindEach(txt, pats, k + 1)

\* doc.ents: the recognizer is a black box; it may tag one capitalized token of
\* the text as a PERSON or as an ORG, or tag nothing
Capitalized(txt) ==
    { tokens(txt)[k] : k \in { j \in 1..Len(tokens(txt)) : Ch(tokens(txt)[j], 1) \in UpperSet } }

Ents(txt) ==
    {<<>>} \cup { <<[text |-> w, label |-> l]>> : w \in Capitalized(txt), l \in {"PERSON", "ORG"} }

\* a key of a defaultdict(list) is there once it was assigned or read
Set(d, key, v) == (key :> v) @@ d
Get(d, key, default) == IF key \in DOMAIN d THEN d[key] ELSE default

\* parse_resume: the keys Name, Skills, Education and Experience are set only
\* when there is something to set them to
parse_resume(txt, ents) ==
    LET persons == { k \in 1..Len(ents) : ents[k].label = "PERSON" }
        email == re_findall(txt, email_pattern)
        phone == re_findall(txt, phone_pattern)
        skills == SkillsLoop(tokens(txt), matcher(tokens(txt)), 1, <<>>)
        education == FindEach(txt, education_patterns, 1)
        experience == FindEach(txt, experience_patterns, 1)
    IN  (IF persons # {} THEN "Name" :> ents[Min(persons)].text ELSE NoData) @@
        [ Email |-> IF Len(email) > 0 THEN email[1] ELSE None,
          Phone |-> IF Len(phone) > 0 THEN phone[1] ELSE None ] @@
        (IF Len(skills) > 0 THEN "Skills" :> skills ELSE NoData) @@
        (IF Len(education) > 0 THEN "Education" :> education ELSE NoData) @@
        (IF Len(experience) > 0 THEN "Experience" :> experience ELSE NoData)

\* summarize_resume: the summarizer is a black box, ok is whether it answers
summarize_resume(txt, ok) == IF ok THEN "(summary)" ELSE "Summary not available."

\* the dimension of the vectors of SentenceTransformer('all-MiniLM-L6-v2')
EmbDim == 384

\* a similarity k / ScoreScale, kept as k
Scores == (0 - ScoreScale)..ScoreScale

\* " ".join(resume["Skills"]) of each resume; a defaultdict answers [] for a
\* key it does not have
skills_texts(rs) == [i \in 1..Len(rs) |-> join(" ", Get(rs[i], "Skills", <<>>))]

\* reading resume["Skills"] puts the key into a defaultdict that lacks it
touch_skills(rs) ==
    [i \in 1..Len(rs) |-> IF "Skills" \in DOMAIN rs[i] THEN rs[i] ELSE Set(rs[i], "Skills", <<>>)]

\* The embedding model is a black box: whether encode answers for the job
\* description and for the resumes, and the similarity to the job description
\* of each text it embeds (the same text has the same embedding).
Encoders(rs) ==
    LET texts == { skills_texts(rs)[i] : i \in 1..Len(rs) }
        any == [t \in texts |-> 0]
    IN  { [job_ok |-> FALSE, resumes_ok |-> TRUE, sim |-> any],
          [job_ok |-> TRUE, resumes_ok |-> FALSE, sim |-> any] } \cup
        { [job_ok |-> TRUE, resumes_ok |-> TRUE, sim |-> f] : f \in [texts -> Scores] }

\* the shape of sentence_model.encode(x, convert_to_tensor=True): one vector for
\* a string; for a list of n strings n stacked vectors, and the empty tensor,
\* of one axis of length 0, for the empty list
encode_shape_of_string == <<EmbDim>>
encode_shape_of_list(n) == IF n = 0 THEN <<0>> ELSE <<n, EmbDim>>

\* util.pytorch_cos_sim(a, b): a tensor of one axis is taken as one row; the
\* product of a and the transpose of b raises unless the rows are as long;
\* sims are the similarities, row by row
pytorch_cos_sim(a, b, sims) ==
    LET a2 == IF Len(a) = 1 THEN <<1, a[1]>> ELSE a
        b2 == IF Len(b) = 1 THEN <<1, b[1]>> ELSE b
    IN  IF a2[2] # b2[2] THEN Raised ELSE Return(sims)

Reverse(xs) == [k \in 1..Len(xs) |-> xs[Len(xs) + 1 - k]]

\* x put into the ascending xs behind every entry whose key is not larger
RECURSIVE InsertAsc(_, _, _)
InsertAsc(xs, x, key) ==
    IF Len(xs) = 0 THEN <<x>>
    ELSE IF key[x] < key[Head(xs)] THEN <<x>> \o xs
    ELSE <<Head(xs)>> \o InsertAsc(Tail(xs), x, key)

\* a stable ascending sort of xs by key
RECURSIVE StableSortAsc(_, _)
StableSortAsc(xs, key) ==
    IF Len(xs) = 0 THEN <<>>
    ELSE InsertAsc(StableSortAsc(SubSeq(xs, 1, Len(xs) - 1), key), xs[Len(xs)], key)

\* reversed(sorted(...)): descending, entries of equal key in reverse order
sorted_then_reversed(xs, key) == Reverse(StableSortAsc(xs, key))

\* sorted(xs, key=..., reverse=True): the list is reversed, sorted ascending by
\* a stable sort and reversed again, so entries of equal key keep their order
sorted_reverse(xs, key) == Reverse(StableSortAsc(Reverse(xs), key))

\* ranked_indices of rank_applicants; the indices count from 1
ranked_indices(cos) ==
    sorted_reverse([i \in 1..Len(cos) |-> i], cos)

\* cosine_similarities of rank_applicants, unless encode or pytorch_cos_sim
\* raises
cosine_similarities(rs, enc) ==
    IF ~enc.job_ok \/ ~enc.resumes_ok THEN Raised
    ELSE pytorch_cos_sim(encode_shape_of_string, encode_shape_of_list(Len(rs)),
                         [i \in 1..Len(rs) |-> enc.sim[skills_texts(rs)[i]]])

\* [(resumes[i], cosine_similarities[i]) for i in ranked_indices]
ranked(rs, cos) ==
    [k \in 1..Len(rs) |->
        [resume |-> touch_skills(rs)[ranked_indices(cos)[k]],
         score |-> cos[ranked_indices(cos)[k]]]]

\* a rank_applicants whose handler answers an empty ranking instead of raising
rank_applicants_swallowing(rs, enc) ==
    LET cos == cosine_similarities(rs, enc)
    IN  IF cos.raised THEN Return(<<>>) ELSE Return(ranked(rs, cos.value))

\* rank_applicants: what it raises it logs and raises again; else the list of
\* (resume, score), best first
rank_applicants(rs, enc) ==
    LET cos == cosine_similarities(rs, enc)
    IN  IF cos.raised THEN Raised ELSE Return(ranked(rs, cos.value))

\* what display_resume_info prints of a resume: the score line only for a score
\* that is not 0, and 'N/A' for a key the record lacks
display_resume_info(resume, score) ==
    [ rank_line |-> score # 0,
      Name |-> Get(resume, "Name", "N/A"),
      Email |-> Get(resume, "Email", "N/A"),
      Phone |-> Get(resume, "Phone", "N/A"),
      Skills |-> Get(resume, "Skills", <<>>),
      Education |-> Get(resume, "Education", <<>>),
      Experience |-> Get(resume, "Experience", <<>>),
      Summary |-> Get(resume, "Summary", "N/A") ]

\* the row export_to_csv writes for a resume
csv_row(resume) ==
    [ Name |-> Get(resume, "Name", "N/A"),
      Email |-> Get(resume, "Email", "N/A"),
      Phone |-> Get(resume, "Phone", "N/A"),
      Skills |-> join(", ", Get(resume, "Skills", <<>>)),
      Education |-> join(", ", Get(resume, "Education", <<>>)),
      Experience |-> join(", ", Get(resume, "Experience", <<>>)),
      Summary |-> Get(resume, "Summary", "N/A") ]

JobDescriptions == { "", "Seeking Python developer" }

Parser_Init ==
    /\ MainPy_Idle
    /\ Rank_Idle
    /\ pc = "load_nlp_models"
    /\ resume_path \in ResumeFiles
    /\ resume_text = ""
    /\ parsed_data = NoData
    /\ job_description = ""
    /\ ranked_applicants = <<>>
    /\ log = {}
    /\ displayed = <<>>
    /\ csv = NoCsv

\* what main() of resume_parser.py does with an exception: it logs it and ends
Caught(errors) ==
    /\ log' = log \cup errors \cup {"An error occurred"}
    /\ pc' = "end"

\* main: load_nlp_models(), which may raise
Parser_load_nlp_models ==
    /\ pc = "load_nlp_models"
    /\ \E ok \in BOOLEAN :
        IF ok THEN pc' = "input" /\ log' = log
        ELSE Caught({"Error loading NLP models"})
    /\ UNCHANGED <<resume_path, resume_text, parsed_data, job_description,
                   ranked_applicants, displayed, csv>>
    /\ UNCHANGED <<mvars, rvars>>

\* main: the path is asked for; a file that is not there, or whose name ends
\* neither in .pdf nor in .docx, ends the run
Parser_input ==
    /\ pc = "input"
    /\ IF ~resume_path.exists
       THEN pc' = "end" /\ log' = log \cup {"File not found"}
       ELSE IF endswith(resume_path.path, ".pdf")
       THEN pc' = "extract_text_from_pdf" /\ log' = log
       ELSE IF endswith(resume_path.path, ".docx")
       THEN pc' = "extract_text_from_docx" /\ log' = log
       ELSE pc' = "end" /\ log' = log \cup {"Unsupported file format"}
    /\ UNCHANGED <<resume_path, resume_text, parsed_data, job_description,
                   ranked_applicants, displayed, csv>>
    /\ UNCHANGED <<mvars, rvars>>

\* what the OCR may answer for the file: it raises, or a text for each page
NoOcr == [raised |-> TRUE, texts |-> <<>>]
OcrAnswers(file) ==
    {NoOcr} \cup { [raised |-> FALSE, texts |-> t] : t \in [1..Len(file.pages) -> OcrTexts] }

\* main: text = extract_text_from_pdf(resume_path)
Parser_extract_text_from_pdf ==
    /\ pc = "extract_text_from_pdf"
    /\ \E ocr \in (IF needs_ocr(resume_path) THEN OcrAnswers(resume_path) ELSE {NoOcr}) :
        LET r == extract_text_from_pdf(resume_path, ocr)
            info == IF needs_ocr(resume_path)
                    THEN {"No text extracted from PDF. Attempting OCR."} ELSE {}
        IN  IF r.raised
            THEN /\ Caught(info \cup
                        (IF needs_ocr(resume_path) THEN {"Error performing OCR on PDF"} ELSE {})
                        \cup {"Error extracting text from PDF"})
                 /\ UNCHANGED resume_text
            ELSE /\ resume_text' = r.value
                 /\ log' = log \cup info
                 /\ pc' = "parse_resume"
    /\ UNCHANGED <<resume_path, parsed_data, job_description, ranked_applicants, displayed, csv>>
    /\ UNCHANGED <<mvars, rvars>>

\* main: text = extract_text_from_docx(resume_path)
Parser_extract_text_from_docx ==
    /\ pc = "extract_text_from_docx"
    /\ LET r == extract_text_from_docx(resume_path)
       IN  IF r.raised
           THEN Caught({"Error extracting text from DOCX"}) /\ UNCHANGED resume_text
           ELSE resume_text' = r.value /\ log' = log /\ pc' = "parse_resume"
    /\ UNCHANGED <<resume_path, parsed_data, job_description, ranked_applicants, displayed, csv>>
    /\ UNCHANGED <<mvars, rvars>>

\* main: parsed_data = parse_resume(text, nlp)
Parser_parse_resume ==
    /\ pc = "parse_resume"
    /\ \E ents \in Ents(resume_text) : parsed_data' = parse_resume(resume_text, ents)
    /\ pc' = "summarize_resume"
    /\ UNCHANGED <<resume_path, resume_text, job_description, ranked_applicants, log,
                   displayed, csv>>
    /\ UNCHANGED <<mvars, rvars>>

\* main: parsed_data["Summary"] = summarize_resume(text, summarizer), and the
\* job description is asked for
Parser_summarize_resume ==
    /\ pc = "summarize_resume"
    /\ \E ok \in BOOLEAN :
        /\ parsed_data' = Set(parsed_data, "Summary", summarize_resume(resume_text, ok))
        /\ log' = IF ok THEN log ELSE log \cup {"Error summarizing resume"}
    /\ \E jd \in JobDescriptions : job_description' = jd
    /\ pc' = "rank_applicants"
    /\ UNCHANGED <<resume_path, resume_text, ranked_applicants, displayed, csv>>
    /\ UNCHANGED <<mvars, rvars>>

\* main: ranked_applicants = rank_applicants([parsed_data], ...); the list
\* holds parsed_data itself, which the call may touch
Parser_rank_applicants ==
    /\ pc = "rank_applicants"
    /\ \E enc \in Encoders(<<parsed_data>>) :
        LET r == rank_applicants(<<parsed_data>>, enc)
        IN  /\ parsed_data' = IF enc.job_ok THEN touch_skills(<<parsed_data>>)[1]
                              ELSE parsed_data
            /\ IF r.raised
               THEN Caught({"Error ranking applicants"}) /\ UNCHANGED ranked_applicants
               ELSE ranked_applicants' = r.value /\ log' = log /\ pc' = "display_resume_info"
    /\ UNCHANGED <<resume_path, resume_text, job_description, displayed, csv>>
    /\ UNCHANGED <<mvars, rvars>>

\* main: for resume, score in ranked_applicants: display_resume_info(resume, score)
Parser_display_resume_info ==
    /\ pc = "display_resume_info"
    /\ displayed' = [k \in 1..Len(ranked_applicants) |->
                        display_resume_info(ranked_applicants[k].resume,
                                            ranked_applicants[k].score)]
    /\ pc' = "export_to_csv"
    /\ UNCHANGED <<resume_path, resume_text, parsed_data, job_description,
                   ranked_applicants, log, csv>>
    /\ UNCHANGED <<mvars, rvars>>

\* main: export_to_csv([parsed_data]); what writing the file raises is logged
\* by export_to_csv itself
Parser_export_to_csv ==
    /\ pc = "export_to_csv"
    /\ \E ok \in BOOLEAN :
        /\ csv' = [called |-> TRUE, written |-> ok,
                   rows |-> IF ok THEN <<csv_row(parsed_data)>> ELSE <<>>]
        /\ log' = IF ok THEN log \cup {"Resume data exported"}
                  ELSE log \cup {"Error exporting data to CSV"}
    /\ pc' = "end"
    /\ UNCHANGED <<resume_path, resume_text, parsed_data, job_description,
                   ranked_applicants, displayed>>
    /\ UNCHANGED <<mvars, rvars>>

Parser_Next ==
    \/ Parser_load_nlp_models
    \/ Parser_input
    \/ Parser_extract_text_from_pdf
    \/ Parser_extract_text_from_docx
    \/ Parser_parse_resume
    \/ Parser_summarize_resume
    \/ Parser_rank_applicants
    \/ Parser_display_resume_info
    \/ Parser_export_to_csv

Spec == Parser_Init /\ [][Parser_Next]_vars

-----------------------------------------------------------------------------
(* rank_applicants called on a list of resumes *)

\* records as parse_resume builds them; one has no skills, two the same skills
ResumePool ==
    { [Name |-> "Ann", Skills |-> <<"Python", "SQL">>],
      [Name |-> "Bob", Skills |-> <<"Java", "C++">>],
      [Name |-> "Cy", Skills |-> <<"Python", "SQL">>],
      [Name |-> "Di"] }

Rank_Init ==
    /\ MainPy_Idle
    /\ Parser_Idle
    /\ r_pc = "call"
    /\ resumes \in SeqsUpTo(ResumePool, MaxResumes)
    /\ r_enc \in Encoders(resumes)
    /\ r_indices = <<>>
    /\ ranked_resumes = <<>>

\* the call: it returns the ranking or raises; the resumes it read the skills
\* of have the key Skills from then on
Rank_rank_applicants ==
    /\ r_pc = "call"
    /\ LET r == rank_applicants(resumes, r_enc)
           cos == cosine_similarities(resumes, r_enc)
       IN  /\ resumes' = IF r_enc.job_ok THEN touch_skills(resumes) ELSE resumes
           /\ IF r.raised
              THEN r_pc' = "raised" /\ UNCHANGED <<r_indices, ranked_resumes>>
              ELSE /\ r_pc' = "returned"
                   /\ ranked_resumes' = r.value
                   /\ r_indices' = IF cos.raised THEN <<>> ELSE ranked_indices(cos.value)
    /\ UNCHANGED r_enc
    /\ UNCHANGED <<mvars, pvars>>

Rank_Next == Rank_rank_applicants

SpecRank == Rank_Init /\ [][Rank_Next]_vars

-----------------------------------------------------------------------------
(* Claims about main.py, checked under SpecMainPy. *)

\* parse_resume of main.py has run extract_information
Extracted == m_pc \in {"extract_largest_text", "display_resume", "end"} /\ data # NoData

\* the header aliases of a label: the alternatives its expression starts with
Aliases(key) == { PatternOf(key).heads[k] : k \in 1..Len(PatternOf(key).heads) }
OtherAliases(key) == UNION { Aliases(other) : other \in SectionKeys \ {key} }

\* the first position from j on where an alias of another label stands, the
\* position after the text if there is none
FirstOtherAlias(txt, key, j) ==
    Min({ k \in j..(Len(txt) + 1) :
            k > Len(txt) \/ \E a \in OtherAliases(key) : MatchLitI(txt, a, k) })

\* the end of the longest alias of the label that stands at position i
FullHeaderEnd(txt, key, i) ==
    i + Max({ Len(a) : a \in { b \in Aliases(key) : MatchLitI(txt, b, i) } })

\* C1: for every label whose header occurs in the normalized text, the captured
\* span runs from the matched header to the first alias, anywhere after it, of
\* any other label, or to the end of the text if there is none.
C1_SpanEndsAtFirstOtherAlias ==
    Extracted =>
        \A key \in SectionKeys :
            LET m == section_search(m_text, PatternOf(key))
            IN  m.found =>
                    data[key] =
                        strip(SubSeq(m_text, m.from, FirstOtherAlias(m_text, key, m.from) - 1))

\* C2: for every label whose header occurs in the text, the captured text
\* begins after the end of the full header alias that stands there: no
\* character of the header is captured.
C2_CaptureExcludesHeader ==
    Extracted =>
        \A key \in SectionKeys :
            LET m == section_search(m_text, PatternOf(key))
            IN  m.found =>
                    data[key] =
                        strip(SubSeq(m_text, FullHeaderEnd(m_text, key, m.start), m.to - 1))

\* C3: the record parse_resume returns has the keys Name, Email and Phone,
\* whatever the document, and displaying it does not fail on a missing field.
C3_NameEmailPhoneDefined ==
    /\ (m_pc \in {"display_resume", "end"} /\ data # NoData) =>
            {"Name", "Email", "Phone"} \subseteq DOMAIN data
    /\ (m_pc = "end" /\ data # NoData) => m_shown

\* C10: a path that ends neither in .pdf nor in .docx fails with an
\* unsupported-format error before any extraction or parsing is done on it.
C10_FormatSelectedByExtension ==
    (m_pc # "idle" /\ pdf_path.exists
        /\ ~endswith(pdf_path.path, ".pdf") /\ ~endswith(pdf_path.path, ".docx")) =>
            /\ m_pc \in {"main", "end"}
            /\ data = NoData
            /\ m_pc = "end" => "Unsupported file format" \in m_log
-----------------------------------------------------------------------------
(* Claims about rank_applicants, checked under SpecRank. *)

\* the similarity the call computed for the resume at index i of its input
ScoreOf(i) == r_enc.sim[skills_texts(resumes)[i]]

\* C5: the ranking holds the resumes by descending score, and two resumes of
\* the same score stand in the order they had in the input list.
C5_DescendingAndStable ==
    r_pc = "returned" =>
        /\ Len(ranked_resumes) = Len(resumes)
        /\ \A k \in 1..Len(ranked_resumes) :
                /\ r_indices[k] \in 1..Len(resumes)
                /\ ranked_resumes[k].resume = resumes[r_indices[k]]
                /\ ranked_resumes[k].score = ScoreOf(r_indices[k])
        /\ \A p, q \in 1..Len(ranked_resumes) :
                p < q =>
                    /\ ranked_resumes[p].score >= ranked_resumes[q].score
                    /\ ranked_resumes[p].score = ranked_resumes[q].score
                            => r_indices[p] < r_indices[q]

\* a ranking of three resumes in which the sort moved a resume to the front and
\* two different resumes have the same score
C5_Witness ==
    /\ r_pc = "returned"
    /\ Len(ranked_resumes) >= 3
    /\ r_indices[1] # 1
    /\ \E p, q \in 1..Len(ranked_resumes) :
            /\ p < q
            /\ ranked_resumes[p].score = ranked_resumes[q].score
            /\ ranked_resumes[p].resume # ranked_resumes[q].resume

\* C6: the call fails when the list is empty and when the embedding raises, it
\* returns nothing when it fails, and a ranking it returns holds every resume
\* of the input once.
C6_AllOrNothing ==
    r_pc \in {"returned", "raised"} =>
        /\ Len(resumes) = 0 => r_pc = "raised"
        /\ (~r_enc.job_ok \/ ~r_enc.resumes_ok) => r_pc = "raised"
        /\ r_pc = "raised" => ranked_resumes = <<>>
        /\ r_pc = "returned" =>
                /\ Len(ranked_resumes) = Len(resumes)
                /\ { r_indices[k] : k \in 1..Len(r_indices) } = 1..Len(resumes)
                /\ \A k \in 1..Len(resumes) : ranked_resumes[k].resume = resumes[r_indices[k]]

\* the embedding raised on a batch of several resumes and the call failed
C6_Witness ==
    /\ r_pc = "raised"
    /\ Len(resumes) >= 2
    /\ r_enc.job_ok
    /\ ~r_enc.resumes_ok
-----------------------------------------------------------------------------
(* Claims about main of resume_parser.py, checked under Spec. *)

\* parse_resume has run on the text of the file
Parsed == pc \in {"summarize_resume", "rank_applicants", "display_resume_info",
                  "export_to_csv"}

\* C4: the skills of a parsed resume hold no two entries that are equal when
\* case is ignored.
C4_SkillsUniqueIgnoringCase ==
    Parsed =>
        LET skills == Get(parsed_data, "Skills", <<>>)
        IN  \A i, j \in 1..Len(skills) :
                i < j => str_lower(skills[i]) # str_lower(skills[j])

\* C7: a run in which rank_applicants raised still displays the parsed resume
\* and still calls export_to_csv for it.
C7_RankingFailureKeepsExport ==
    (pc = "end" /\ "Error ranking applicants" \in log) =>
        /\ csv.called
        /\ Len(displayed) > 0

\* C8: a pdf whose pages give no text is read by OCR, and the text handed to
\* parse_resume for a pdf is never empty or white space only.
C8_NoEmptyTextToParser ==
    (pc = "parse_resume" /\ endswith(resume_path.path, ".pdf")) =>
        /\ Len(strip(resume_text)) > 0
        /\ needs_ocr(resume_path)
                => "No text extracted from PDF. Attempting OCR." \in log

\* the three formats of a telephone number
PhoneFormats == { "555-123-4567", "(555) 123-4567", "555.123.4567" }

\* C9: a text that is one telephone number in one of the three formats gives a
\* resume whose Phone is that match and not None.
C9_PhoneFormatsAccepted ==
    (Parsed /\ strip(resume_text) \in PhoneFormats) =>
        Get(parsed_data, "Phone", None) # None
=============================================================================
